---- MODULE Spec2Model ----
(***************************************************************************)
(* Camcookie Dirt Dash (FP/game.py): the race state machine, the per-frame *)
(* update of the player and the bots, obstacle handling, results and the   *)
(* persisted statistics.                                                   *)
(*                                                                         *)
(* Reals are kept as fixed-point integers.  One tick is FRAME_DT = 1/60 s, *)
(* so the frame delta after the clamp of Game.loop is 0, 1 or 2 ticks.     *)
(*   speed           1/SU  px/s    (SU = 15: ACCEL*dt, BRAKE*dt, ROLL_DECEL*dt *)
(*                                  and the bots' 0.8/0.4 rates are whole) *)
(*   xw (position)   1/XU  px      (XU = SU * 60 = 900: speed * dt is exact)   *)
(*   vy              1/VU  px/s    (VU = 5: JUMP_VY * 0.88 is whole)       *)
(*   y               1/YU  px      (YU = VU * 60 = 300: vy * dt is exact)  *)
(* The rendering calls are left out; what draw() changes of the state      *)
(* (the countdown transition, the pause hitbox, the button list) is kept.  *)
(* draw_obstacles reads self.obstacles, which Game.__init__ does not set:  *)
(* the AttributeError raised by a draw before the first start_race is not  *)
(* modelled, the list is taken to be empty until then.                     *)
(***************************************************************************)
EXTENDS Integers, Sequences, FiniteSets, TLC

\* ------------------------------------------------------------------ config
GROUND_BASE_Y == 470
GRAVITY == 1500
JUMP_VY == -540
MAX_SPEED == 270
ACCEL == 620
BRAKE == 980
ROLL_DECEL == 720
TRACK_LENGTH == 3600
BOT_COUNT_DEFAULT == 3
COUNTDOWN_MS == 3000
OBST_ROCKS == 12
OBST_LOGS == 8
OBST_RAMPS == 8

\* FRAME_DT = 1/60: the number of ticks in a second
TicksPerSec == 60

\* dt = min(dt, 1/30) in Game.loop: two ticks
MAX_DT == 2

\* fixed-point units (see the header)
SU == 15
VU == 5
XU == SU * TicksPerSec
YU == VU * TicksPerSec

\* finish_time = None, best_time = None
None == -1

Min(a, b) == IF a < b THEN a ELSE b
Max(a, b) == IF a > b THEN a ELSE b
Abs(a) == IF a < 0 THEN 0 - a ELSE a

\* clamp(v, lo, hi)
clamp(v, lo, hi) == IF v < lo THEN lo ELSE IF v > hi THEN hi ELSE v

\* ------------------------------------------------------------------ ground
\* ground_y_at tabulated every GroundStep px, in 1/YU px (rounded to nearest);
\* between two entries the value is interpolated linearly (error < 2/YU px).
GroundStep == 4
GroundTable == <<
    140887, 140963, 141040, 141118, 141197, 141276, 141357, 141438, 141520, 141602, 141686, 141770, 141854, 141939, 142025, 142111,
    142198, 142285, 142372, 142460, 142549, 142637, 142726, 142815, 142905, 142994, 143084, 143174, 143264, 143354, 143444, 143534,
    143623, 143713, 143803, 143892, 143981, 144070, 144158, 144246, 144334, 144421, 144508, 144595, 144680, 144765, 144850, 144934,
    145017, 145099, 145181, 145262, 145342, 145421, 145499, 145576, 145652, 145727, 145801, 145874, 145945, 146015, 146084, 146152,
    146219, 146284, 146348, 146410, 146471, 146530, 146588, 146644, 146698, 146751, 146803, 146852, 146900, 146946, 146990, 147033,
    147073, 147112, 147149, 147184, 147217, 147248, 147277, 147304, 147329, 147351, 147372, 147391, 147407, 147421, 147434, 147444,
    147451, 147457, 147460, 147461, 147460, 147456, 147451, 147442, 147432, 147419, 147404, 147387, 147367, 147345, 147321, 147294,
    147265, 147233, 147200, 147164, 147125, 147084, 147041, 146996, 146948, 146898, 146845, 146791, 146734, 146674, 146613, 146549,
    146483, 146415, 146344, 146271, 146197, 146120, 146040, 145959, 145876, 145791, 145703, 145614, 145522, 145429, 145333, 145236,
    145137, 145036, 144933, 144829, 144722, 144614, 144504, 144393, 144280, 144165, 144049, 143932, 143813, 143692, 143570, 143447,
    143322, 143196, 143069, 142941, 142812, 142682, 142550, 142418, 142284, 142150, 142015, 141879, 141742, 141605, 141467, 141329,
    141189, 141050, 140910, 140769, 140628, 140487, 140346, 140204, 140062, 139921, 139779, 139637, 139495, 139354, 139212, 139071,
    138930, 138790, 138650, 138510, 138371, 138232, 138094, 137957, 137820, 137684, 137549, 137415, 137282, 137150, 137019, 136888,
    136759, 136632, 136505, 136380, 136256, 136133, 136012, 135892, 135774, 135658, 135543, 135430, 135318, 135208, 135100, 134994,
    134890, 134788, 134687, 134589, 134493, 134398, 134306, 134217, 134129, 134043, 133960, 133879, 133801, 133725, 133651, 133580,
    133511, 133445, 133381, 133320, 133261, 133205, 133152, 133101, 133053, 133008, 132965, 132926, 132889, 132854, 132823, 132794,
    132768, 132745, 132725, 132707, 132693, 132681, 132672, 132666, 132663, 132663, 132666, 132672, 132680, 132692, 132706, 132723,
    132744, 132767, 132792, 132821, 132853, 132887, 132924, 132965, 133007, 133053, 133102, 133153, 133207, 133264, 133323, 133385,
    133450, 133517, 133587, 133660, 133735, 133813, 133893, 133976, 134061, 134148, 134238, 134330, 134425, 134522, 134621, 134722,
    134826, 134931, 135039, 135149, 135261, 135374, 135490, 135608, 135727, 135848, 135971, 136096, 136222, 136350, 136480, 136611,
    136743, 136877, 137012, 137149, 137287, 137426, 137566, 137707, 137849, 137993, 138137, 138282, 138428, 138575, 138723, 138871,
    139020, 139169, 139319, 139469, 139620, 139771, 139922, 140074, 140226, 140377, 140529, 140681, 140833, 140985, 141136, 141288,
    141439, 141589, 141740, 141890, 142039, 142188, 142336, 142483, 142630, 142776, 142921, 143066, 143209, 143352, 143493, 143633,
    143772, 143910, 144047, 144182, 144316, 144449, 144580, 144710, 144839, 144965, 145090, 145214, 145336, 145456, 145574, 145690,
    145805, 145918, 146028, 146137, 146244, 146348, 146451, 146552, 146650, 146746, 146840, 146932, 147021, 147108, 147193, 147276,
    147356, 147433, 147509, 147582, 147652, 147720, 147785, 147848, 147908, 147966, 148021, 148074, 148124, 148171, 148216, 148258,
    148297, 148334, 148368, 148400, 148429, 148455, 148478, 148499, 148517, 148533, 148546, 148556, 148563, 148568, 148570, 148570,
    148567, 148561, 148553, 148542, 148529, 148513, 148494, 148473, 148449, 148423, 148394, 148363, 148330, 148294, 148255, 148215,
    148172, 148126, 148078, 148028, 147976, 147922, 147865, 147806, 147745, 147682, 147617, 147550, 147481, 147409, 147336, 147261,
    147185, 147106, 147025, 146943, 146859, 146774, 146687, 146598, 146508, 146416, 146322, 146228, 146132, 146034, 145936, 145836,
    145734, 145632, 145529, 145424, 145319, 145212, 145105, 144996, 144887, 144777, 144667, 144555, 144443, 144330, 144217, 144103,
    143989, 143875, 143760, 143644, 143529, 143413, 143297, 143181, 143064, 142948, 142832, 142715, 142599, 142483, 142367, 142251,
    142136, 142021, 141906, 141792, 141678, 141564, 141451, 141339, 141227, 141116, 141006, 140896, 140787, 140679, 140571, 140465,
    140359, 140254, 140151, 140048, 139947, 139846, 139747, 139648, 139551, 139455, 139361, 139267, 139175, 139084, 138995, 138907,
    138820, 138735, 138651, 138569, 138488, 138409, 138331, 138255, 138180, 138107, 138036, 137966, 137898, 137831, 137767, 137703,
    137642, 137582, 137524, 137468, 137413, 137361, 137310, 137260, 137213, 137167, 137123, 137081, 137040, 137002, 136965, 136930,
    136896, 136865, 136835, 136807, 136781, 136756, 136733, 136712, 136693, 136676, 136660, 136646, 136633, 136622, 136613, 136606,
    136600, 136596, 136594, 136593, 136593, 136596, 136600, 136605, 136612, 136620, 136630, 136641, 136654, 136668, 136684, 136700,
    136719, 136738, 136759, 136781, 136805, 136829, 136855, 136882, 136910, 136939, 136970, 137001, 137033, 137067, 137101, 137136,
    137173, 137210, 137248, 137287, 137326, 137367, 137408, 137450, 137492, 137535, 137579, 137624, 137669, 137714, 137760, 137807,
    137854, 137901, 137948, 137997, 138045, 138093, 138142, 138192, 138241, 138290, 138340, 138390, 138439, 138489, 138539, 138589,
    138639, 138689, 138739, 138788, 138838, 138887, 138936, 138985, 139034, 139082, 139130, 139178, 139225, 139273, 139319, 139366,
    139412, 139457, 139502, 139547, 139591, 139634, 139677, 139720, 139761, 139803, 139843, 139883, 139923, 139961, 140000, 140037,
    140074, 140110, 140145, 140180, 140214, 140247, 140279, 140311, 140342, 140372, 140401, 140430, 140457, 140484, 140510, 140536,
    140560, 140584, 140607, 140629, 140651, 140671, 140691, 140710, 140728, 140746, 140762, 140778, 140793, 140808, 140821, 140834,
    140846, 140857, 140868, 140878, 140887, 140896, 140903, 140910, 140917, 140923, 140928, 140932, 140936, 140939, 140942, 140944,
    140946, 140947, 140948, 140948, 140947, 140946, 140945, 140943, 140941, 140938, 140935, 140932, 140928, 140924, 140920, 140915,
    140910, 140905, 140900, 140895, 140889, 140883, 140877, 140871, 140865, 140859, 140853, 140847, 140840, 140834, 140828, 140822,
    140816, 140810, 140804, 140799, 140793, 140788, 140783, 140778, 140774, 140770, 140766, 140762, 140759, 140756, 140754, 140752,
    140750, 140749, 140748, 140748, 140748, 140749, 140750, 140752, 140755, 140758, 140761, 140766, 140771, 140776, 140782, 140789,
    140797, 140805, 140814, 140824, 140834, 140846, 140858, 140870, 140884, 140898, 140913, 140929, 140946, 140963, 140982, 141001,
    141021, 141042, 141064, 141086, 141109, 141134, 141159, 141185, 141212, 141239, 141268, 141297, 141327, 141358, 141390, 141423,
    141456, 141490, 141525, 141561, 141598, 141636, 141674, 141713, 141753, 141793, 141834, 141876, 141919, 141962, 142006, 142051,
    142096, 142142, 142189, 142236, 142284, 142332, 142381, 142430, 142480, 142531, 142581, 142633, 142684, 142736, 142789, 142841,
    142895, 142948, 143002, 143055, 143110, 143164, 143218, 143273, 143328, 143382, 143437, 143492, 143547, 143602, 143657, 143711,
    143766, 143820, 143875, 143929, 143982, 144036, 144089, 144142, 144195, 144247, 144298, 144350, 144400, 144451, 144500, 144549,
    144598, 144646, 144693, 144739, 144785, 144830, 144874, 144917, 144960, 145001, 145042, 145082, 145120, 145158, 145194, 145230,
    145264, 145298, 145330, 145361, 145390, 145419, 145446, 145472, 145496, 145520, 145541, 145562, 145581, 145599, 145615, 145629,
    145642, 145654, 145664, 145672, 145679, 145685, 145688, 145690, 145690, 145689, 145686, 145681, 145675, 145666, 145656, 145645,
    145631, 145616, 145598, 145579, 145559, 145536, 145512, 145485, 145457, 145427, 145396, 145362, 145326, 145289, 145250, 145209,
    145166, 145121, 145074, 145026, 144976, 144924, 144870, 144814, 144756, 144697, 144636, 144573, 144508, 144442, 144374, 144304,
    144232, 144159, 144084, 144007, 143929, 143849, 143768, 143684, 143600, 143514, 143426, 143337, 143246, 143154, 143061, 142966,
    142870, 142773, 142674, 142574, 142473, 142370, 142267, 142162, 142056, 141950, 141842, 141733, 141623, 141513, 141401, 141289,
    141176, 141062, 140947, 140832, 140716, 140599, 140482, 140365, 140247, 140128, 140010, 139890, 139771, 139651, 139532, 139412,
    139291, 139171, 139051, 138931, 138811, 138691, 138571, 138452, 138333, 138214, 138095, 137977, 137860, 137743, 137626, 137510,
    137395, 137280, 137166, 137053, 136941, 136830, 136719, 136610, 136502, 136394, 136288, 136183, 136079, 135977, 135876, 135776,
    135677, 135580, 135485, 135391, 135298, 135207, 135118, 135031, 134945, 134861, 134779, 134698, 134620, 134543, 134469, 134396,
    134326, 134257, 134191, 134126, 134064, 134004, 133946, 133891, 133838, 133787, 133738, 133692, 133648, 133607, 133568, 133532,
    133498, 133466, 133437, 133411, 133387, 133365, 133347, 133331, 133317, 133306, 133298, 133293, 133290, 133290, 133292, 133297,
    133305, 133316, 133329, 133345, 133364, 133385, 133409, 133436, 133466, 133498, 133533, 133571, 133611, 133654, 133699, 133748,
    133799, 133852, 133908, 133967, 134029, 134093, 134159, 134228, 134300, 134374, 134450, 134529, 134610, 134694, 134780, 134869,
    134959, 135053, 135148, 135245, 135345, 135447, 135551, 135657, 135765, 135875, 135987, 136101, 136217, 136335, 136455, 136576,
    136699, 136824, 136951, 137079, 137208, 137340, 137472, 137606, 137742, 137878, 138016, 138156, 138296, 138438, 138580, 138724,
    138868, 139014, 139160, 139308, 139455, 139604, 139753, 139903
>>

\* ground_y_at(xw), xw in 1/XU px, result in 1/YU px
ground_y_at(xw) ==
    LET cell == GroundStep * XU
        i == xw \div cell
        f == xw % cell
        a == GroundTable[i + 1]
        b == GroundTable[i + 2]
    IN  a + ((b - a) * f) \div cell

\* --------------------------------------------------------------- obstacles
\* 0x7fffffff
Mask31 == 2147483647

\* (x + y) & 0x7fffffff for x, y in 0..Mask31, without leaving 32 bits
AddMask(x, y) == IF x > Mask31 - y THEN (x - (Mask31 - y)) - 1 ELSE x + y

\* (a * b) & 0x7fffffff for a, b in 0..Mask31, by 15-bit limbs so that no
\* product leaves 32 bits
MulMask(a, b) ==
    LET L == 32768
        a0 == a % L
        a1 == (a \div L) % L
        a2 == a \div (L * L)
        b0 == b % L
        b1 == (b \div L) % L
        b2 == b \div (L * L)
        t0 == a0 * b0
        t1 == ((a0 * b1 + a1 * b0) % 65536) * L
        t2 == ((a0 * b2 + a1 * b1 + a2 * b0) % 2) * (L * L)
    IN  AddMask(AddMask(t0, t1), t2)

\* one step of the generator of seeded_rand: the next state["x"]
LcgNext(x) == AddMask(MulMask(1103515245, x), 12345)

\* int(rnd() * n) for the state x just produced: floor(n * x / 0x7fffffff)
LcgInt(x, n) ==
    LET q == Mask31 \div n
        r == Mask31 % n
        \* ceil(j * Mask31 / n)
        edge(j) == j * q + ((j * r) + (n - 1)) \div n
    IN  Cardinality({j \in 1..n : x >= edge(j)})

ObstacleSeed == 1337

\* the states of the generator of seeded_rand(seed) over k calls of rnd(), after
\* the ones in acc (seed & 0x7fffffff is the seed itself for 0 <= seed <= 0x7fffffff)
RECURSIVE LcgRun(_, _)
LcgRun(acc, k) ==
    IF k = 0 THEN acc ELSE LcgRun(Append(acc, LcgNext(acc[Len(acc)])), k - 1)

\* LcgState[k + 1]: state["x"] after k calls of rnd() in spawn_obstacles
LcgState == LcgRun(<< ObstacleSeed >>, OBST_ROCKS + OBST_LOGS + OBST_RAMPS)

Rock(n) ==
    [type |-> "rock",
     xw |-> 240 * XU + ((TRACK_LENGTH - 480) * XU * (n + 1)) \div (OBST_ROCKS + 1)
            + (LcgInt(LcgState[n + 2], 53) - 26) * XU,
     r |-> 10 + ((n * 31) % 7), w |-> 0, h |-> 0]

Log(n) ==
    [type |-> "log",
     xw |-> 400 * XU + ((TRACK_LENGTH - 800) * XU * (n + 1)) \div (OBST_LOGS + 1)
            + (LcgInt(LcgState[OBST_ROCKS + n + 2], 73) - 36) * XU,
     r |-> 0, w |-> 56 + ((n * 13) % 16), h |-> 12]

Ramp(n) ==
    [type |-> "ramp",
     xw |-> 350 * XU + ((TRACK_LENGTH - 700) * XU * (n + 1)) \div (OBST_RAMPS + 1)
            + (LcgInt(LcgState[OBST_ROCKS + OBST_LOGS + n + 2], 61) - 30) * XU,
     r |-> 0, w |-> 84, h |-> 40]

\* a list left in the order it was generated
SortByXwAsIs(s) == s

\* list.sort(key = xw): a stable sort puts s[j] at the place given by the number
\* of entries with a smaller key, or an equal key and an earlier place
SortByXw(s) ==
    LET before(k, j) == s[k].xw < s[j].xw \/ (s[k].xw = s[j].xw /\ k < j)
        rank(j) == Cardinality({k \in 1..Len(s) : before(k, j)}) + 1
    IN  [i \in 1..Len(s) |-> s[CHOOSE j \in 1..Len(s) : rank(j) = i]]

\* Game.spawn_obstacles: the list it leaves in self.obstacles
spawn_obstacles ==
    SortByXw([k \in 1..(OBST_ROCKS + OBST_LOGS + OBST_RAMPS) |->
                IF k <= OBST_ROCKS THEN Rock(k - 1)
                ELSE IF k <= OBST_ROCKS + OBST_LOGS THEN Log(k - OBST_ROCKS - 1)
                ELSE Ramp(k - OBST_ROCKS - OBST_LOGS - 1)])

\* ---------------------------------------------------------------- entities
\* Bike.__init__: the fields the simulation reads (name, colour and is_bot are
\* fixed by the bike's place: the player, or bots[i] named "Bot i")
Bike ==
    [xw |-> 0, y |-> ground_y_at(0) - 40 * YU, vy |-> 0, speed |-> 0,
     engine_on |-> FALSE, finished |-> FALSE, finish_time |-> None,
     bump_cooldown |-> 0]

\* the floor of update_physics and on_ground: ground_y_at(xw) - 36
FloorAt(xw) == ground_y_at(xw) - 36 * YU

\* Bike.on_ground: abs(y - floor) < 0.2
on_ground(b) == Abs(b.y - FloorAt(b.xw)) < (2 * YU) \div 10

\* an integration step whose landing keeps the falling speed
update_physics_bounce(b, dt) ==
    LET vy1 == b.vy + ((GRAVITY * VU) \div TicksPerSec) * dt
        y1 == b.y + vy1 * dt
        floor == FloorAt(b.xw)
    IN  [b EXCEPT !.vy = vy1,
                  !.y = IF y1 >= floor THEN floor ELSE y1,
                  !.bump_cooldown = IF @ > 0 THEN @ - dt ELSE @]

\* an integration step that runs the cooldown down whatever its sign
update_physics_drain(b, dt) ==
    LET vy1 == b.vy + ((GRAVITY * VU) \div TicksPerSec) * dt
        y1 == b.y + vy1 * dt
        floor == FloorAt(b.xw)
        landed == y1 >= floor
    IN  [b EXCEPT !.vy = IF landed THEN 0 ELSE vy1,
                  !.y = IF landed THEN floor ELSE y1,
                  !.bump_cooldown = @ - dt]

\* Bike.update_physics(dt), dt in ticks
update_physics(b, dt) ==
    LET vy1 == b.vy + ((GRAVITY * VU) \div TicksPerSec) * dt
        y1 == b.y + vy1 * dt
        floor == FloorAt(b.xw)
        landed == y1 >= floor
    IN  [b EXCEPT !.vy = IF landed THEN 0 ELSE vy1,
                  !.y = IF landed THEN floor ELSE y1,
                  !.bump_cooldown = IF @ > 0 THEN @ - dt ELSE @]

\* Bike.jump(vy): vy is JUMP_VY * num / den
jump(b, num, den) ==
    IF on_ground(b) THEN [b EXCEPT !.vy = (JUMP_VY * VU * num) \div den] ELSE b

\* a bot with no speed to reach
BotTargetIdle(i) == 0

\* BotAI.__init__ as called by build_bots for bot i (0-based): target, jump_bias
BotTarget(i) == (220 + 12 * i) * SU
BotLook(i) == (140 + 10 * i) * XU

\* the first obstacle of the list with 0 < dx < look ("break"), or 0 when
\* there is none
FirstAhead(obs, xw, look) ==
    LET ahead == {k \in 1..Len(obs) : 0 < obs[k].xw - xw /\ obs[k].xw - xw < look}
    IN  IF ahead = {} THEN 0 ELSE CHOOSE k \in ahead : \A j \in ahead : k <= j

\* a step that a finished bot takes as well
BotStepOn(b, i, dt, obs) ==
      LET target == BotTarget(i)
          sp == IF b.speed < target
                THEN Min(b.speed + ((ACCEL * 8 * SU) \div (10 * TicksPerSec)) * dt, target)
                ELSE Max(b.speed - ((ROLL_DECEL * 4 * SU) \div (10 * TicksPerSec)) * dt,
                         (target * 9) \div 10)
          k == FirstAhead(obs, b.xw, BotLook(i))
          b1 == [b EXCEPT !.speed = sp]
          b2 == IF k = 0 THEN b1
                ELSE IF obs[k].type = "ramp" THEN jump(b1, 95, 100)
                ELSE jump(b1, 88, 100)
          b3 == [b2 EXCEPT !.xw = @ + sp * dt]
      IN  update_physics(b3, dt)

\* BotAI.step(dt, obstacles) for bot i
BotStep(b, i, dt, obs) ==
    IF b.finished THEN b
    ELSE
      LET target == BotTarget(i)
          sp == IF b.speed < target
                THEN Min(b.speed + ((ACCEL * 8 * SU) \div (10 * TicksPerSec)) * dt, target)
                ELSE Max(b.speed - ((ROLL_DECEL * 4 * SU) \div (10 * TicksPerSec)) * dt,
                         (target * 9) \div 10)
          k == FirstAhead(obs, b.xw, BotLook(i))
          b1 == [b EXCEPT !.speed = sp]
          b2 == IF k = 0 THEN b1
                ELSE IF obs[k].type = "ramp" THEN jump(b1, 95, 100)
                ELSE jump(b1, 88, 100)
          b3 == [b2 EXCEPT !.xw = @ + sp * dt]
      IN  update_physics(b3, dt)

\* the bump cooldown set by a rock or log hit: 0.6 s
BumpCooldown == (6 * TicksPerSec) \div 10

\* a penalty that takes the lower of the two speeds
PenaltySpeedLower(speed, num, flat) == Min((speed * num) \div 10, speed - flat * SU)

\* the speed left by a hit: max(speed * num/10, speed - flat)
PenaltySpeed(speed, num, flat) == Max((speed * num) \div 10, speed - flat * SU)

\* a collision test that ignores the cooldown
ReadyAlways(b) == TRUE

\* handle_obstacles: "bike.bump_cooldown <= 0"
Ready(b) == b.bump_cooldown <= 0

\* handle_obstacles, one obstacle; hits counts the rock/log penalties applied
HandleOne(acc, ob) ==
    LET bike == acc.b
        dx == ob.xw - bike.xw
        gy == ground_y_at(ob.xw)
    IN  IF ~(-30 * XU <= dx /\ dx <= 30 * XU) THEN acc
        ELSE IF ob.type = "rock" THEN
            IF bike.y >= (gy - ob.r * YU) - 10 * YU /\ Ready(bike)
            THEN [b |-> [bike EXCEPT !.speed = PenaltySpeed(bike.speed, 6, 80),
                                     !.vy = -120 * VU,
                                     !.bump_cooldown = BumpCooldown],
                  hits |-> acc.hits + 1]
            ELSE acc
        ELSE IF ob.type = "log" THEN
            IF bike.y >= (gy - ob.h * YU) - 10 * YU /\ Ready(bike)
            THEN [b |-> [bike EXCEPT !.speed = PenaltySpeed(bike.speed, 7, 90),
                                     !.vy = -150 * VU,
                                     !.bump_cooldown = BumpCooldown],
                  hits |-> acc.hits + 1]
            ELSE acc
        ELSE
            IF /\ (ob.xw - (ob.w * XU) \div 2) - 10 * XU <= bike.xw
               /\ bike.xw <= (ob.xw + (ob.w * XU) \div 2) + 10 * XU
               /\ on_ground(bike)
            THEN [acc EXCEPT !.b.vy = (JUMP_VY * VU * 9) \div 10]
            ELSE acc

\* the loop of handle_obstacles over the obstacles numbered in todo, in list
\* order
RECURSIVE HandleFrom(_, _, _)
HandleFrom(acc, obs, todo) ==
    IF todo = {} THEN acc
    ELSE LET k == CHOOSE k \in todo : \A j \in todo : k <= j
         IN  HandleFrom(HandleOne(acc, obs[k]), obs, todo \ {k})

\* Game.handle_obstacles(bike): the bike it leaves, and the penalties it applied
\* (an obstacle outside -30 <= dx <= 30 changes nothing and the position does not
\* change during the call, so the loop is run over the others)
HandleObstacles(bike, obs) ==
    HandleFrom([b |-> bike, hits |-> 0], obs,
               {k \in 1..Len(obs) : Abs(obs[k].xw - bike.xw) <= 30 * XU})
handle_obstacles(bike, obs) == HandleObstacles(bike, obs).b

\* ------------------------------------------------------------------- state
VARIABLES
    state,          \* Game.state: "HOME", "GRID", "PLAY", "PAUSE", "END"
    keys,           \* Game.keys, as far as it is read: "Right", "Left" (and "space")
    player,         \* Game.player
    bots,           \* Game.bots, each with its BotAI (bot_ai[i] is bound to bots[i])
    time_elapsed,   \* Game.time_elapsed, in ticks
    countdown_end,  \* Game.countdown_end, kept as the ticks left until the deadline
    results,        \* Game.results: <<name, time>> pairs
    bot_count,      \* Game.bot_count
    reduced_motion, \* Game.reduced_motion
    home_buttons,   \* Game.home_buttons: the button boxes with their callbacks
    pause_btn_box,  \* whether draw_pause_overlay has set Game.pause_btn_box
    obstacles,      \* Game.obstacles (empty before the first start_race)
    stats,          \* the module's stats dict
    stats_file,     \* the record stored in STATS_FILE
    inputs,         \* the number of key and pointer events delivered so far
    last_bump       \* history: time_elapsed at the player's latest rock/log penalty

simVars == <<bots, time_elapsed, countdown_end, results, obstacles, last_bump>>
raceVars == <<state, player, simVars>>
prefVars == <<bot_count, reduced_motion>>
uiVars == <<home_buttons, pause_btn_box>>
statVars == <<stats, stats_file>>
vars == <<raceVars, prefVars, uiVars, statVars, keys, inputs>>

\* ------------------------------------------------------------------ bounds
\* key and pointer events (and irregular frame deltas) in one run
MaxInputs == 3

\* in PLAY, events and frame deltas other than MAX_DT arrive only during the
\* first InputWindow ticks of a race; afterwards the frames run at MAX_DT
InputWindow == 6

\* frames are run in PLAY while time_elapsed is below MaxTime ticks, and only
\* below IdleTime ticks once the player stands still short of the line
MaxTime == 1024
IdleTime == 240

\* races that may be completed in one run
MaxRaces == 2

\* the stats records a run may start from (missing file: the default record)
InitBots == {0 - 1, 6}

\* the best time such a record carries: 10 s
InitBest == 10 * TicksPerSec

\* wall-clock deltas between two frames, in ticks: GridDeltas while the
\* countdown runs (a stalled window), PlayDeltas otherwise
GridDeltas == {90, 180}
PlayDeltas == {0, 1, MAX_DT}
KeySyms == {"space", "s", "p", "r", "Return", "Right", "Left"}
TrackedKeys == {"Right", "Left", "space"}

\* pointer positions: on "-", on "+", on the reduced-motion toggle (also on
\* Resume in PAUSE and on Home below four result lines), on Start, on nothing
ClickPoints == {<<474, 244>>, <<508, 244>>, <<500, 300>>, <<430, 339>>, <<10, 10>>}

\* COUNTDOWN_MS / 1000.0 seconds, in ticks
CountdownTicks == (COUNTDOWN_MS * TicksPerSec) \div 1000

BotNames == <<"Bot 1", "Bot 2", "Bot 3", "Bot 4", "Bot 5", "Bot 6", "Bot 7">>

\* ------------------------------------------------------------------- stats
\* load_stats: the default record, or the record read from STATS_FILE
load_stats ==
    {[total_races |-> 0, wins |-> 0, best_time |-> None, reduced_motion |-> TRUE,
      bots |-> BOT_COUNT_DEFAULT]}
    \cup {[total_races |-> 0, wins |-> 0, best_time |-> InitBest, reduced_motion |-> TRUE,
           bots |-> b] : b \in InitBots}

\* ---------------------------------------------------------------- buttons
\* draw_home: the four buttons of the setup panel (x, y = 320, 140)
HomeMenu ==
    << [x0 |-> 460, y0 |-> 230, x1 |-> 488, y1 |-> 258, cb |-> "dec_bots"],
       [x0 |-> 494, y0 |-> 230, x1 |-> 522, y1 |-> 258, cb |-> "inc_bots"],
       [x0 |-> 350, y0 |-> 270, x1 |-> 560, y1 |-> 304, cb |-> "toggle_rm"],
       [x0 |-> 350, y0 |-> 320, x1 |-> 510, y1 |-> 358, cb |-> "start_race"] >>

\* draw_end_overlay: the two buttons below n result lines (x, y = 260, 120)
EndMenu(n) ==
    LET yy == 120 + 70 + 24 * n
    IN  << [x0 |-> 280, y0 |-> yy + 10, x1 |-> 440, y1 |-> yy + 46, cb |-> "start_race"],
           [x0 |-> 460, y0 |-> yy + 10, x1 |-> 580, y1 |-> yy + 46, cb |-> "to_home"] >>

\* draw_pause_overlay: pause_btn_box
PauseBox == [x0 |-> 450, y0 |-> 290, x1 |-> 650, y1 |-> 324]

Inside(box, pt) == box.x0 <= pt[1] /\ pt[1] <= box.x1 /\ box.y0 <= pt[2] /\ pt[2] <= box.y1

\* on_click in HOME: the callback of the first button holding the point, or "none"
HitFrom(btns, pt) ==
    LET hit == {k \in 1..Len(btns) : Inside(btns[k], pt)}
    IN  IF hit = {} THEN "none" ELSE btns[CHOOSE k \in hit : \A j \in hit : k <= j].cb

\* -------------------------------------------------------------------- init
\* Game.__init__ (the first draw_home included)
Init ==
    /\ stats \in load_stats
    /\ stats_file = stats
    /\ state = "HOME"
    /\ keys = {}
    /\ player = Bike
    /\ bots = << >>
    /\ time_elapsed = 0
    /\ countdown_end = None
    /\ results = << >>
    /\ bot_count = stats.bots
    /\ reduced_motion = stats.reduced_motion
    /\ home_buttons = HomeMenu
    /\ pause_btn_box = FALSE
    /\ obstacles = << >>
    /\ inputs = 0
    /\ last_bump = None

\* ------------------------------------------------------------ flow control
\* Game.build_bots: range(bot_count) fresh bikes
build_bots(n) == [i \in 1..n |-> Bike]

\* Game.start_race
start_race ==
    /\ state' = "GRID"
    /\ results' = << >>
    /\ time_elapsed' = 0
    /\ player' = [Bike EXCEPT !.engine_on = FALSE]
    /\ obstacles' = spawn_obstacles
    /\ bots' = build_bots(bot_count)
    /\ countdown_end' = CountdownTicks
    /\ last_bump' = None
    /\ UNCHANGED <<prefVars, uiVars, statVars>>

\* a pause command that also pauses outside PLAY
pause_toggle_anywhere ==
    /\ state' = IF state = "PAUSE" THEN "PLAY" ELSE "PAUSE"
    /\ UNCHANGED <<player, simVars>>
    /\ UNCHANGED <<prefVars, uiVars, statVars>>

\* Game.pause_toggle
pause_toggle ==
    /\ state' = IF state = "PLAY" THEN "PAUSE" ELSE IF state = "PAUSE" THEN "PLAY" ELSE state
    /\ UNCHANGED <<player, simVars>>
    /\ UNCHANGED <<prefVars, uiVars, statVars>>

\* save_stats(stats) after stats["bots"], stats["reduced_motion"] are set
SavedPrefs(st) == [st EXCEPT !.bots = bot_count, !.reduced_motion = reduced_motion]

\* Game.to_home
to_home ==
    /\ stats' = SavedPrefs(stats)
    /\ stats_file' = stats'
    /\ state' = "HOME"
    /\ home_buttons' = HomeMenu
    /\ UNCHANGED <<player, simVars>>
    /\ UNCHANGED <<prefVars, pause_btn_box>>

\* Game.dec_bots, inc_bots, toggle_rm (each redraws the setup panel)
dec_bots ==
    /\ bot_count' = Max(0, bot_count - 1)
    /\ home_buttons' = HomeMenu
    /\ UNCHANGED <<raceVars, reduced_motion, pause_btn_box, statVars>>

inc_bots ==
    /\ bot_count' = Min(5, bot_count + 1)
    /\ home_buttons' = HomeMenu
    /\ UNCHANGED <<raceVars, reduced_motion, pause_btn_box, statVars>>

toggle_rm ==
    /\ reduced_motion' = ~reduced_motion
    /\ home_buttons' = HomeMenu
    /\ UNCHANGED <<raceVars, bot_count, pause_btn_box, statVars>>

Idle == UNCHANGED <<raceVars, prefVars, uiVars, statVars>>

\* ------------------------------------------------------------------ events
\* the environment: an event is delivered while the run's budget lasts and,
\* in PLAY, during the input window of the race
EnvInput ==
    /\ inputs < MaxInputs
    /\ stats.total_races < MaxRaces
    /\ state = "PLAY" => time_elapsed < InputWindow

\* Game.on_keydown
on_keydown(k) ==
    /\ EnvInput
    /\ inputs' = inputs + 1
    /\ keys' = keys \cup ({k} \cap TrackedKeys)
    /\ CASE k = "space" ->
              IF state = "PLAY"
              THEN /\ player' = jump(player, 1, 1)
                   /\ UNCHANGED <<state, simVars>>
                   /\ UNCHANGED <<prefVars, uiVars, statVars>>
              ELSE Idle
         [] k = "s" ->
              IF state \in {"GRID", "PLAY", "PAUSE"}
              THEN /\ player' = [player EXCEPT !.engine_on = ~@]
                   /\ UNCHANGED <<state, simVars>>
                   /\ UNCHANGED <<prefVars, uiVars, statVars>>
              ELSE Idle
         [] k = "p" -> pause_toggle
         [] k = "r" -> IF state \in {"PLAY", "PAUSE", "END"} THEN start_race ELSE Idle
         [] k = "Return" -> IF state \in {"HOME", "END"} THEN start_race ELSE Idle
         [] OTHER -> Idle

\* Game.on_keyup
on_keyup(k) ==
    /\ EnvInput
    /\ inputs' = inputs + 1
    /\ keys' = keys \ {k}
    /\ Idle

\* Game.on_click at point pt
on_click(pt) ==
    /\ EnvInput
    /\ inputs' = inputs + 1
    /\ UNCHANGED keys
    /\ IF state = "HOME" THEN
          LET cb == HitFrom(home_buttons, pt)
          IN  CASE cb = "dec_bots" -> dec_bots
                [] cb = "inc_bots" -> inc_bots
                [] cb = "toggle_rm" -> toggle_rm
                [] cb = "start_race" -> start_race
                [] cb = "to_home" -> to_home
                [] OTHER -> Idle
       ELSE IF state = "PAUSE" THEN
          \* before the first draw in PAUSE pause_btn_box does not exist: the
          \* handler raises and changes nothing
          IF pause_btn_box /\ Inside(PauseBox, pt) THEN pause_toggle ELSE Idle
       ELSE Idle

\* ------------------------------------------------------------------ update
\* update_play, "Engine and input": the player's speed after the frame's input
PlayerSpeed(p, ks, dt) ==
    LET per(rate) == ((rate * SU) \div TicksPerSec) * dt
    IN  IF ~p.engine_on THEN Max(0, p.speed - per(ROLL_DECEL))
        ELSE IF "Right" \in ks THEN clamp(p.speed + per(ACCEL), 0, MAX_SPEED * SU)
        ELSE IF "Left" \in ks THEN clamp(p.speed - per(BRAKE), 0, MAX_SPEED * SU)
        ELSE clamp(p.speed - per(ROLL_DECEL), 0, MAX_SPEED * SU)

\* a frame that jumps for a held or remembered "space"
PlayerMoveBuffered(p, ks, dt) ==
    LET sp == PlayerSpeed(p, ks, dt)
        q == IF "space" \in ks THEN jump(p, 1, 1) ELSE p
    IN  update_physics([q EXCEPT !.speed = sp, !.xw = @ + sp * dt], dt)

\* update_play, "Advance world" and "Obstacle interaction (player)" (the bots'
\* steps in between do not read or write the player)
PlayerMove(p, ks, dt) ==
    LET sp == PlayerSpeed(p, ks, dt)
    IN  update_physics([p EXCEPT !.speed = sp, !.xw = @ + sp * dt], dt)

\* the bike (b) and the penalties applied (hits)
PlayerStep(p, ks, dt, obs) ==
    CHOOSE h \in {HandleObstacles(m, obs) : m \in {PlayerMove(p, ks, dt)}} : TRUE

\* update_play, "Bots": every BotAI steps its bike
BotsStep(bs, dt, obs) == [i \in 1..Len(bs) |-> BotStep(bs[i], i - 1, dt, obs)]

\* a finish check that stamps every bike past the line, finished or not
FinishCheckAgain(b, t) ==
    IF b.xw >= TRACK_LENGTH * XU
    THEN [b EXCEPT !.finished = TRUE, !.finish_time = t]
    ELSE b

\* update_play, "Finish check" for one bike at elapsed time t
FinishCheck(b, t) ==
    IF ~b.finished /\ b.xw >= TRACK_LENGTH * XU
    THEN [b EXCEPT !.finished = TRUE, !.finish_time = t]
    ELSE b

\* a race that is over as soon as the player is past the line
AllDonePlayerOnly(p, bs) == p.finished \/ p.xw >= TRACK_LENGTH * XU

\* update_play, "Race finished?"
AllDone(p, bs) ==
    /\ p.finished \/ p.xw >= TRACK_LENGTH * XU
    /\ \A i \in 1..Len(bs) : bs[i].finished \/ bs[i].xw >= TRACK_LENGTH * XU

\* list.sort(key = time) of <<name, time>> pairs: a stable sort (see SortByXw)
SortByTime(s) ==
    LET before(k, j) == s[k][2] < s[j][2] \/ (s[k][2] = s[j][2] /\ k < j)
        rank(j) == Cardinality({k \in 1..Len(s) : before(k, j)}) + 1
    IN  [i \in 1..Len(s) |-> s[CHOOSE j \in 1..Len(s) : rank(j) = i]]

\* the list of end_race left in the order it was gathered
RankingUnsorted(p, bs, t) ==
    LET time(b) == IF b.finish_time # None THEN b.finish_time ELSE t
    IN  [k \in 1..(1 + Len(bs)) |->
            IF k = 1 THEN <<"You", time(p)>>
            ELSE <<BotNames[k - 1], time(bs[k - 1])>>]

\* end_race, "gather results": the ranked list at elapsed time t
Ranking(p, bs, t) ==
    LET time(b) == IF b.finish_time # None THEN b.finish_time ELSE t
    IN  SortByTime([k \in 1..(1 + Len(bs)) |->
                      IF k = 1 THEN <<"You", time(p)>>
                      ELSE <<BotNames[k - 1], time(bs[k - 1])>>])

\* next((t for n, t in everyone if n == "You"), None)
PlayerTime(res) ==
    LET you == {k \in 1..Len(res) : res[k][1] = "You"}
    IN  IF you = {} THEN None ELSE res[CHOOSE k \in you : \A j \in you : k <= j][2]

\* a best-time test that takes every time of the player
BetterAlways(pt, bt) == pt # None

\* end_race, "best time": whether the player's time pt replaces the best bt
Better(pt, bt) == pt # None /\ (bt = None \/ pt < bt)

\* end_race, "update stats": the stats dict it saves
EndStats(st, res) ==
    LET pt == PlayerTime(res)
        won == Len(res) > 0 /\ res[1][1] = "You"
        better == Better(pt, st.best_time)
    IN  [SavedPrefs(st) EXCEPT !.total_races = @ + 1,
                               !.wins = IF won THEN @ + 1 ELSE @,
                               !.best_time = IF better THEN pt ELSE @]

\* a frame whose finish check looks at the player alone
update_play_bots_unchecked(dt) ==
    CHOOSE u \in
        {LET p2 == FinishCheck(p1.b, time_elapsed)
             b2 == b1
         IN  [player |-> p2, bots |-> b2, ended |-> AllDone(p2, b2),
              bumped |-> p1.hits > 0] :
            p1 \in {PlayerStep(player, keys, dt, obstacles)},
            b1 \in {BotsStep(bots, dt, obstacles)}} : TRUE

\* Game.update_play(dt): the bikes after the frame and whether end_race ran
\* (p1, b1: the player and the bots after their steps, each computed once)
update_play(dt) ==
    CHOOSE u \in
        {LET p2 == FinishCheck(p1.b, time_elapsed)
             b2 == [i \in 1..Len(b1) |-> FinishCheck(b1[i], time_elapsed)]
         IN  [player |-> p2, bots |-> b2, ended |-> AllDone(p2, b2),
              bumped |-> p1.hits > 0] :
            p1 \in {PlayerStep(player, keys, dt, obstacles)},
            b1 \in {BotsStep(bots, dt, obstacles)}} : TRUE

\* the environment: the wall-clock delta w of a frame.  In PLAY a delta other
\* than MAX_DT is an irregularity that counts as an event of the run
Irregular(w) == state = "PLAY" /\ w # MAX_DT

EnvFrame(w) ==
    /\ stats.total_races < MaxRaces
    /\ IF state = "GRID" THEN w \in GridDeltas
       ELSE /\ w \in PlayDeltas
            /\ state = "PLAY" => time_elapsed < MaxTime
            /\ (state = "PLAY" /\ player.speed = 0 /\ ~player.finished) =>
                   time_elapsed < IdleTime
            /\ state # "PLAY" => w = MAX_DT
    /\ Irregular(w) => inputs < MaxInputs /\ time_elapsed < InputWindow

\* a loop that keeps simulating while paused
SimulatedInPause(s) == s \in {"PLAY", "PAUSE"}

\* Game.loop: update_play runs in PLAY only
Simulated(s) == s = "PLAY"

\* draw_grid_overlay: ms_left, for a deadline `left` ticks away
ms_left(left) == (Max(0, left) * 1000) \div TicksPerSec

\* a countdown that leaves the engine as it is
GridGoAsIs(p) == p

\* draw_grid_overlay: "auto on when race starts"
GridGo(p) == [p EXCEPT !.engine_on = TRUE]

\* Game.loop: what one frame does, w ticks of wall-clock time after the
\* previous one
loop_frame(w) ==
    \E u \in {update_play(Min(w, MAX_DT))} :
    LET dt == Min(w, MAX_DT)
        ended == Simulated(state) /\ u.ended
        res == Ranking(u.player, u.bots, time_elapsed)
        \* the state draw() sees
        s1 == IF ended THEN "END" ELSE state
        left == Max(0, countdown_end - w)
        go == s1 = "GRID" /\ ms_left(countdown_end - w) = 0
    IN  /\ inputs' = IF Irregular(w) THEN inputs + 1 ELSE inputs
        /\ UNCHANGED <<keys, prefVars, obstacles>>
        \* update_play, end_race
        /\ IF Simulated(state)
           THEN /\ bots' = u.bots
                /\ time_elapsed' = time_elapsed + dt
                /\ player' = u.player
                /\ last_bump' = IF u.bumped THEN time_elapsed ELSE last_bump
           ELSE /\ UNCHANGED <<bots, time_elapsed, last_bump>>
                /\ player' = IF go THEN GridGo(player) ELSE player
        /\ IF ended
           THEN /\ results' = res
                /\ stats' = EndStats(stats, res)
                /\ stats_file' = stats'
           ELSE UNCHANGED <<results, statVars>>
        \* draw: the overlay of the state
        /\ state' = IF go THEN "PLAY" ELSE s1
        /\ countdown_end' = IF s1 = "GRID" THEN left ELSE countdown_end
        /\ pause_btn_box' = (pause_btn_box \/ s1 = "PAUSE")
        /\ home_buttons' = IF s1 = "END" THEN EndMenu(Len(results')) ELSE home_buttons

\* Game.loop: a frame the environment delivers
loop(w) == EnvFrame(w) /\ loop_frame(w)

\* ----------------------------------------------------------- specification
Next ==
    \/ \E k \in KeySyms : on_keydown(k)
    \/ \E k \in TrackedKeys : on_keyup(k)
    \/ \E pt \in ClickPoints : on_click(pt)
    \/ \E w \in GridDeltas \cup PlayDeltas : loop(w)

Spec == Init /\ [][Next]_vars

\* ------------------------------------------- the collision functions alone
\* In a race the bike never gets as low as 10 px above the top of a rock or
\* log (update_physics keeps it at or above its floor), so the penalty branch
\* of handle_obstacles is exercised here on its own: update_physics and
\* handle_obstacles applied to a bike placed at a position, speed, cooldown
\* and height drawn from the sets below.

\* calls of handle_obstacles and irregular frame deltas in one run
MaxBumpInputs == 2

\* frames are run while time_elapsed is below MaxBumpTime ticks
MaxBumpTime == 38

\* positions (px): by the first rock, between a rock and a log whose bands
\* overlap, by a log, and away from every obstacle
BumpXs == {455, 735, 1003, 200}
BumpSpeeds == {100 * SU, 200 * SU, MAX_SPEED * SU}
BumpCooldowns == {0, 1}

\* heights (px below the resting height) at which the bike is held in a call
BumpHeights == {0, 16}

InitBump ==
    /\ stats \in {st \in load_stats : st.bots = BOT_COUNT_DEFAULT}
    /\ stats_file = stats
    /\ state = "PLAY"
    /\ keys = {}
    /\ player \in {[Bike EXCEPT !.xw = x * XU, !.y = FloorAt(x * XU), !.speed = sp,
                                !.engine_on = TRUE, !.bump_cooldown = c] :
                       x \in BumpXs, sp \in BumpSpeeds, c \in BumpCooldowns}
    /\ bots = << >>
    /\ time_elapsed = 0
    /\ countdown_end = 0
    /\ results = << >>
    /\ bot_count = stats.bots
    /\ reduced_motion = stats.reduced_motion
    /\ home_buttons = HomeMenu
    /\ pause_btn_box = FALSE
    /\ obstacles = spawn_obstacles
    /\ inputs = 0
    /\ last_bump = None

\* Game.handle_obstacles(player), the bike held dy px below its resting height
BumpCollide(dy) ==
    LET h == HandleObstacles([player EXCEPT !.y = FloorAt(player.xw) + dy * YU], obstacles)
    IN  /\ inputs < MaxBumpInputs
        /\ inputs' = inputs + 1
        /\ player' = h.b
        /\ last_bump' = IF h.hits > 0 THEN time_elapsed ELSE last_bump
        /\ UNCHANGED <<state, bots, time_elapsed, countdown_end, results, obstacles>>
        /\ UNCHANGED <<prefVars, uiVars, statVars, keys>>

\* Bike.update_physics(dt) of a frame, and the frame's "Timer"
BumpPhysics(dt) ==
    /\ time_elapsed < MaxBumpTime
    /\ dt # MAX_DT => inputs < MaxBumpInputs
    /\ inputs' = IF dt # MAX_DT THEN inputs + 1 ELSE inputs
    /\ player' = update_physics(player, dt)
    /\ time_elapsed' = time_elapsed + dt
    /\ UNCHANGED <<state, bots, countdown_end, results, obstacles, last_bump>>
    /\ UNCHANGED <<prefVars, uiVars, statVars, keys>>

NextBump ==
    \/ \E dy \in BumpHeights : BumpCollide(dy)
    \/ \E dt \in PlayDeltas : BumpPhysics(dt)

SpecBump == InitBump /\ [][NextBump]_vars

\* --------------------------------------------- a race that is left running
\* events (key events and irregular frame deltas) of a race left running
MaxRunInputs == 2

\* the keys of a run that neither pauses nor restarts a race under way
RunKeys == KeySyms \ {"p", "r"}

\* the environment of a single race left running: frames keep coming, also
\* when the player stands still, until MaxTime ticks have been raced
EnvRun(w) ==
    /\ stats.total_races < 1
    /\ IF state = "GRID" THEN w \in GridDeltas
       ELSE /\ w \in PlayDeltas
            /\ state = "PLAY" => time_elapsed < MaxTime
            /\ state # "PLAY" => w = MAX_DT
    /\ Irregular(w) => inputs < MaxRunInputs /\ time_elapsed < InputWindow

\* a frame of the race, and a frame after a full frame interval or more
loop_run(w) == EnvRun(w) /\ loop_frame(w)
Tick == loop_run(MAX_DT)

NextRun ==
    \/ \E k \in RunKeys : inputs < MaxRunInputs /\ on_keydown(k)
    \/ \E k \in TrackedKeys : inputs < MaxRunInputs /\ on_keyup(k)
    \/ \E w \in GridDeltas \cup PlayDeltas : loop_run(w)

\* root.after schedules the next call of loop at the end of every call: a
\* frame that can be run is run
SpecRun == Init /\ [][NextRun]_vars /\ WF_vars(Tick)

\* ------------------------------------------------------------- properties
\* a step of Game.loop
Frame == \E w \in GridDeltas \cup PlayDeltas : loop(w)

\* a step that runs start_race: a race begins (or begins again)
Started == state' = "GRID" /\ countdown_end' = CountdownTicks /\ player'.xw = 0
           /\ (state # "GRID" \/ ~UNCHANGED <<bots, obstacles>>)

\* the bike has crossed the line
Past(b) == b.finished \/ b.xw >= TRACK_LENGTH * XU

\* C1: a frame processed in PLAY ends the race if and only if, after its
\* movement and finish detection, the player and every bot has finished or is
\* at or past TRACK_LENGTH; END is entered by no other step, and never while
\* a bike is short of the line
C1_EndIffAllPast ==
    [][ /\ (Frame /\ state = "PLAY") =>
              (state' = "END" <=> (Past(player') /\ \A i \in 1..Len(bots') : Past(bots'[i])))
        /\ (state' = "END" /\ state # "END") =>
              /\ Frame /\ state = "PLAY"
              /\ player'.xw >= TRACK_LENGTH * XU
              /\ \A i \in 1..Len(bots') : bots'[i].xw >= TRACK_LENGTH * XU
      ]_vars

\* C1 witness: a race with bots has ended
C1_Witness == state = "END" /\ Len(bots) >= 3 /\ Len(results) = Len(bots) + 1

\* the finish bookkeeping of one bike over a step of the same race, where t is
\* the elapsed time before the step and b, c the bike before and after it
FinishKept(b, c, t) ==
    /\ b.finished => (c.finished /\ c.finish_time = b.finish_time)
    /\ (~b.finished /\ c.xw >= TRACK_LENGTH * XU) => (c.finished /\ c.finish_time = t)
    /\ (~b.finished /\ c.xw < TRACK_LENGTH * XU) => (~c.finished /\ c.finish_time = None)

\* C2: within one race every bike's finish time is recorded exactly once, in
\* the first PLAY frame that leaves it at or past TRACK_LENGTH, as the elapsed
\* time before that frame's dt is added; afterwards finished stays true and
\* finish_time does not change although the position may still grow
C2_FinishTimeOnce ==
    [][ ~Started =>
          /\ FinishKept(player, player', time_elapsed)
          /\ Len(bots') = Len(bots)
          /\ \A i \in 1..Len(bots) : FinishKept(bots[i], bots'[i], time_elapsed)
          /\ (player'.finished /\ ~player.finished) => (Frame /\ state = "PLAY")
      ]_vars

\* C2 witness: the player finished earlier and has kept moving since
C2_Witness ==
    /\ state = "PLAY" /\ player.finished
    /\ player.finish_time + 60 < time_elapsed
    /\ player.xw > (TRACK_LENGTH + 200) * XU
    /\ \E i \in 1..Len(bots) : ~bots[i].finished

\* C3: GRID is left only by a frame drawn once the countdown deadline has
\* elapsed, and only to PLAY; that frame leaves the player's engine on whatever
\* was toggled during GRID; nothing is simulated before it (no time elapsed,
\* every bike at the start with speed 0); and GRID is entered only by a start,
\* which sets a fresh deadline, so each start gives one GRID -> PLAY transition
C3_GridToPlay ==
    [][ /\ (Frame /\ state = "GRID") =>
              /\ state' = "PLAY" <=> countdown_end' = 0
              /\ state' \in {"GRID", "PLAY"}
        /\ (state = "GRID" /\ state' # "GRID") =>
              /\ Frame /\ state' = "PLAY"
              /\ player'.engine_on
              /\ countdown_end' = 0
        /\ state' \in {"GRID", "PLAY"} /\ state = "GRID" =>
              /\ time_elapsed' = 0
              /\ player'.xw = 0 /\ player'.speed = 0
              /\ \A i \in 1..Len(bots') : bots'[i].xw = 0 /\ bots'[i].speed = 0
        /\ (state' = "GRID" /\ state # "GRID") => Started
      ]_vars

\* C3 witness: the race has just gone from GRID to PLAY with three bots
C3_Witness ==
    /\ state = "PLAY" /\ time_elapsed = 0 /\ countdown_end = 0
    /\ player.engine_on /\ Len(bots) = 3 /\ inputs = MaxInputs

\* the transitions the race state machine is said to have
ListedTransitions ==
    { <<"HOME", "GRID">>, <<"GRID", "PLAY">>, <<"PLAY", "PAUSE">>, <<"PAUSE", "PLAY">>,
      <<"PLAY", "END">>, <<"END", "GRID">>, <<"END", "HOME">>, <<"PAUSE", "HOME">> }

\* the transitions of a restart ("r") during a race
RestartTransitions == { <<"PLAY", "GRID">>, <<"PAUSE", "GRID">> }

C5_HomeFromEnd ==
    [][ \A pt \in ClickPoints :
          (state = "END" /\ HitFrom(home_buttons, pt) = "to_home" /\ on_click(pt))
             => state' = "HOME"
      ]_vars

\* C6: "p" toggles PLAY <-> PAUSE and changes nothing in any other state; a
\* frame processed outside PLAY leaves the elapsed time and every bike's
\* position, speed, height, vertical velocity, cooldown and finish data as
\* they were; the elapsed time grows only in frames processed in PLAY
Motion(b) == <<b.xw, b.speed, b.y, b.vy, b.bump_cooldown, b.finished, b.finish_time>>

C6_PauseFreezes ==
    [][ /\ on_keydown("p") =>
              /\ state' = IF state = "PLAY" THEN "PAUSE"
                          ELSE IF state = "PAUSE" THEN "PLAY" ELSE state
              /\ UNCHANGED <<player, simVars>>
        /\ (Frame /\ state # "PLAY") =>
              /\ time_elapsed' = time_elapsed
              /\ Motion(player') = Motion(player)
              /\ Len(bots') = Len(bots)
              /\ \A i \in 1..Len(bots) : Motion(bots'[i]) = Motion(bots[i])
        /\ time_elapsed' > time_elapsed => (Frame /\ state = "PLAY")
      ]_vars

\* C6 witness: a frame has been drawn in PAUSE after some time of racing
C6_Witness == state = "PAUSE" /\ pause_btn_box /\ time_elapsed > 0 /\ player.xw > 0

\* C7 as stated: collision handling is applied to every bike alike, so after a
\* PLAY frame it has nothing left to apply to the player or to any bot (no
\* penalty due, no grounded bike left unlaunched inside a ramp's footprint)
C7_SameForBots ==
    [][ (Frame /\ state = "PLAY") =>
          /\ handle_obstacles(player', obstacles) = player'
          /\ \A i \in 1..Len(bots') : handle_obstacles(bots'[i], obstacles) = bots'[i]
      ]_vars

\* the vertical velocities set by a ramp launch and by a rock or log kick
LaunchVy == (JUMP_VY * VU * 9) \div 10
KickVys == {-120 * VU, -150 * VU}

\* C10: a Jump ("space") pressed while the player is not grounded, or outside
\* PLAY, changes nothing of the bike; and it is not kept for later: the bike's
\* vertical velocity turns upward only in the very step of a Jump pressed in
\* PLAY on the ground (to JUMP_VY), or in a frame by a ramp launch or a kick,
\* never in a frame because "space" was pressed or is held
C10_JumpNotBuffered ==
    [][ /\ (on_keydown("space") /\ ~(state = "PLAY" /\ on_ground(player))) =>
              player' = player
        /\ (player'.vy < player.vy /\ player'.vy < 0) =>
              \/ /\ on_keydown("space") /\ state = "PLAY" /\ on_ground(player)
                 /\ player'.vy = JUMP_VY * VU
              \/ /\ Frame /\ state = "PLAY"
                 /\ player'.vy \in {LaunchVy} \cup KickVys
                 /\ handle_obstacles(player', obstacles).vy = player'.vy
      ]_vars

\* C10 witness: "space" went down while the bike was in the air or the race
\* had not begun, is still held, and the bike now rests on the ground in PLAY
C10_Witness ==
    /\ state = "PLAY" /\ "space" \in keys /\ time_elapsed > 0
    /\ on_ground(player) /\ player.vy = 0

\* what handle_obstacles compares the bike's height with: 10 px above the top
\* of a rock or log
Reach(ob) == (ground_y_at(ob.xw) - (IF ob.type = "rock" THEN ob.r ELSE ob.h) * YU) - 10 * YU

\* the rocks and logs, by their place in the list, whose band holds the bike
\* and which it has not cleared
Uncleared(b) ==
    {k \in 1..Len(obstacles) :
        /\ obstacles[k].type \in {"rock", "log"}
        /\ Abs(obstacles[k].xw - b.xw) <= 30 * XU
        /\ b.y >= Reach(obstacles[k])}

\* the step applies a rock or log penalty to the player
Penalised == player.bump_cooldown <= 0 /\ player'.bump_cooldown = BumpCooldown

\* the step is a call of handle_obstacles on the player held at some height
Collides == \E dy \in BumpHeights : BumpCollide(dy)

\* the penalty of the first uncleared obstacle: rock or log
HitType(b) == obstacles[CHOOSE k \in Uncleared(b) : \A j \in Uncleared(b) : k <= j].type

C9_PenaltiesApart ==
    [][ /\ last_bump' # last_bump =>
              /\ last_bump' = time_elapsed
              /\ last_bump = None \/ time_elapsed - last_bump >= (6 * TicksPerSec) \div 10
        /\ Penalised => last_bump' = time_elapsed /\ last_bump' # last_bump
        /\ (Collides /\ last_bump # None
               /\ time_elapsed - last_bump < (6 * TicksPerSec) \div 10) =>
              /\ player'.speed = player.speed
              /\ player'.bump_cooldown = player.bump_cooldown
      ]_vars

\* C9 witness: handle_obstacles has run on the bike, uncleared inside two
\* overlapping bands, while the cooldown of an earlier penalty was running
C9_Witness ==
    /\ last_bump # None /\ last_bump < time_elapsed
    /\ player.bump_cooldown \in 1..(BumpCooldown - 1)
    /\ Cardinality(Uncleared(player)) = 2

\* the bikes of the race
Bikes == {player} \cup {bots[i] : i \in 1..Len(bots)}

\* the integration steps tried on every bike: up to twice the loop's clamp
StepDeltas == 0..(2 * MAX_DT)

\* C11: in every reachable state every bike is at or above its floor at its
\* current x (y <= ground_y_at(xw) - 36), and an integration step of any
\* dt >= 0 leaves it so, with vertical velocity 0 whenever it ends on the floor
C11_AboveFloor ==
    \A b \in Bikes :
        /\ b.y <= ground_y_at(b.xw) - 36 * YU
        /\ \A dt \in StepDeltas :
              LET c == update_physics(b, dt)
              IN  /\ c.y <= ground_y_at(c.xw) - 36 * YU
                  /\ c.y = ground_y_at(c.xw) - 36 * YU => c.vy = 0

\* C11 witness: the player rides on the floor down the track while a bot is
\* in the air
C11_Witness ==
    /\ state = "PLAY" /\ player.xw > 400 * XU
    /\ player.y = ground_y_at(player.xw) - 36 * YU /\ player.vy = 0
    /\ \E i \in 1..Len(bots) : bots[i].y < ground_y_at(bots[i].xw) - 36 * YU /\ bots[i].vy > 0

\* C12 as stated: in every reachable state the speed of the player and of
\* every bot lies in [0, MAX_SPEED]
C12_SpeedInRange == \A b \in Bikes : 0 <= b.speed /\ b.speed <= MAX_SPEED * SU

ToEnd == state # "END" /\ state' = "END"

\* C14: a step into END leaves one (name, time) entry for the player and for
\* every bot, in ascending order of time, adds 1 to total_races, and adds 1 to
\* wins exactly when the first entry is the player's; no other step changes
\* either counter
C14_RankingAndCounters ==
    [][IF ToEnd
       THEN /\ Len(results') = Len(bots') + 1
            /\ Cardinality({k \in 1..Len(results') :
                                results'[k] = <<"You", player'.finish_time>>}) = 1
            /\ \A i \in 1..Len(bots') :
                   Cardinality({k \in 1..Len(results') :
                                   results'[k] = <<BotNames[i], bots'[i].finish_time>>}) = 1
            /\ \A k \in 1..(Len(results') - 1) : results'[k][2] <= results'[k + 1][2]
            /\ stats'.total_races = stats.total_races + 1
            /\ stats'.wins = IF results'[1][1] = "You" THEN stats.wins + 1 ELSE stats.wins
       ELSE /\ stats'.total_races = stats.total_races
            /\ stats'.wins = stats.wins]_vars

\* C14 witness: a race has ended with a bot ranked ahead of the player, and
\* no win was counted
C14_Witness ==
    /\ state = "END" /\ Len(results) >= 3
    /\ \E k \in 2..Len(results) : results[k][1] = "You"
    /\ stats.total_races = 1 /\ stats.wins = 0

\* C15: a step into END replaces best_time by the player's finish time exactly
\* when there was no best time or the new time is strictly lower, so that
\* best_time never increases; no other step changes it
C15_BestTime ==
    [][IF ToEnd
       THEN /\ player'.finished /\ player'.finish_time # None
            /\ stats'.best_time =
                  IF stats.best_time = None \/ player'.finish_time < stats.best_time
                  THEN player'.finish_time ELSE stats.best_time
            /\ stats'.best_time <= player'.finish_time
            /\ stats.best_time # None => stats'.best_time <= stats.best_time
            /\ stats_file'.best_time = stats'.best_time
       ELSE stats'.best_time = stats.best_time]_vars

\* C15 witness: a race has ended with a player's time above the best time on
\* record, which was kept
C15_Witness ==
    /\ state = "END" /\ stats.best_time # None
    /\ PlayerTime(results) > stats.best_time

\* a step that changes a preference
PrefChanged == bot_count' # bot_count \/ reduced_motion' # reduced_motion

\* C16 as stated: after every race end and every preference change the
\* stored record holds the current reduced_motion and bots values
C16_SavedOnChange ==
    [][(ToEnd \/ PrefChanged) =>
          /\ stats_file'.bots = bot_count'
          /\ stats_file'.reduced_motion = reduced_motion']_vars

\* C17 as stated: the bot count is within [0,5] in every state and every race
\* is built with between 0 and 5 bots
C17_BotCountInRange ==
    /\ bot_count \in 0..5
    /\ Len(bots) \in 0..5

\* the obstacles of one type in a list
OfType(obs, t) == {k \in 1..Len(obs) : obs[k].type = t}

C19_AllAdvance ==
    [][(state = "PLAY" /\ Frame) =>
          LET dt == time_elapsed' - time_elapsed
          IN  /\ player'.xw = player.xw + player'.speed * dt
              /\ \A i \in 1..Len(bots) :
                     bots'[i].xw = bots[i].xw + bots'[i].speed * dt]_vars

\* C19, amended: in every frame processed in PLAY the player, finished or
\* not, and every bot that had not finished before the frame move on by their
\* speed times dt; a bot that had finished keeps its position and its speed
C19_UnfinishedAdvance ==
    [][(state = "PLAY" /\ Frame) =>
          LET dt == time_elapsed' - time_elapsed
          IN  /\ player'.xw = player.xw + player'.speed * dt
              /\ \A i \in 1..Len(bots) :
                     IF bots[i].finished
                     THEN bots'[i] = bots[i]
                     ELSE bots'[i].xw = bots[i].xw + bots'[i].speed * dt]_vars

\* C19 witness: a frame of PLAY has been processed while the player, past the
\* line, and an unfinished bot were moving and a finished bot stood still
\* with its speed
C19_Witness ==
    /\ state = "PLAY" /\ player.finished /\ player.xw > TRACK_LENGTH * XU
    /\ \E i \in 1..Len(bots) :
          /\ bots[i].finished /\ bots[i].speed > 0
          /\ bots[i].finish_time + 2 * MAX_DT < time_elapsed
    /\ \E i \in 1..Len(bots) : ~bots[i].finished /\ bots[i].speed > 0

\* a bike as Bike.__init__ leaves it
Fresh(b) ==
    /\ b.xw = 0 /\ b.speed = 0 /\ b.vy = 0 /\ b.bump_cooldown = 0
    /\ ~b.finished /\ b.finish_time = None

\* C20 as stated: a start or restart leaves GRID with elapsed time 0, no
\* results, the generated obstacles, and a fresh player with the engine off
\* plus exactly bot_count fresh bots
C20_FreshRace ==
    [][Started =>
          /\ state' = "GRID" /\ time_elapsed' = 0 /\ results' = << >>
          /\ obstacles' = spawn_obstacles
          /\ Fresh(player') /\ ~player'.engine_on
          /\ Len(bots') = bot_count
          /\ \A i \in 1..Len(bots') : Fresh(bots'[i])]_vars

\* the rocks and logs, by their place in the list, whose band (|dx| <= 30)
\* holds the bike
InBand(b) ==
    {k \in 1..Len(obstacles) :
        /\ obstacles[k].type \in {"rock", "log"}
        /\ Abs(obstacles[k].xw - b.xw) <= 30 * XU}

\* C21 as stated: a frame processed in PLAY that finds the player riding on
\* the ground inside the band of a rock or log with its cooldown expired
\* applies the penalty, so no such frame leaves the player there, grounded,
\* with the cooldown still expired
C21_GroundedIsPenalised ==
    [][(state = "PLAY" /\ Frame) =>
          ~(/\ on_ground(player')
            /\ InBand(player') # {}
            /\ player'.bump_cooldown <= 0)]_vars

\* C22: the frame that enters END leaves the player and every bot finished,
\* each with a finish time that is set and no later than the elapsed time
\* before that frame, and every time of the results list is the finish time
\* of the bike it names (none is the elapsed time standing in for a missing
\* one); while the state stays END the bikes and the list do not change
C22_AllFinishedAtEnd ==
    [][ /\ ToEnd =>
              /\ player'.finished /\ player'.finish_time # None
              /\ player'.finish_time \in 0..time_elapsed
              /\ \A i \in 1..Len(bots') :
                     /\ bots'[i].finished /\ bots'[i].finish_time # None
                     /\ bots'[i].finish_time \in 0..time_elapsed
              /\ \A k \in 1..Len(results') :
                     \/ results'[k] = <<"You", player'.finish_time>>
                     \/ \E i \in 1..Len(bots') :
                           results'[k] = <<BotNames[i], bots'[i].finish_time>>
        /\ (state = "END" /\ state' = "END") => UNCHANGED <<player, bots, results>>
      ]_vars

\* C22 witness: a race has ended in which a bot finished before the player and
\* another after, so that the elapsed time at the end is above the player's
\* finish time
C22_Witness ==
    /\ state = "END" /\ player.finished
    /\ \E i \in 1..Len(bots) : bots[i].finished /\ bots[i].finish_time < player.finish_time
    /\ \E i \in 1..Len(bots) : bots[i].finished /\ bots[i].finish_time > player.finish_time
    /\ player.finish_time < time_elapsed

\* every bot of the race has finished
BotsFinished == \A i \in 1..Len(bots) : bots[i].finished

\* C23: in a race that is neither paused nor restarted and whose frames keep
\* coming, whatever the player does, every bot eventually finishes; and once
\* a bot has finished, nothing of it changes for the rest of the race
C23_BotsFinish ==
    /\ [](state = "PLAY" => <>BotsFinished)
    /\ [][\A i \in 1..Len(bots) :
             (bots[i].finished /\ ~Started) =>
                 (Len(bots') = Len(bots) /\ bots'[i] = bots[i])]_vars

\* C23 witness: every bot has finished while the player never left the
\* start, so that the race stays in PLAY
C23_Witness ==
    /\ state = "PLAY" /\ Len(bots) >= 3 /\ BotsFinished
    /\ player.xw = 0 /\ ~player.finished
====
